---- MODULE Spec2Model ----
(***************************************************************************)
(* Model of the multivariable linear regression engine of                  *)
(* cocoonspace/regression (regression.go and the feature crosses).         *)
(*                                                                         *)
(* float64 values are modelled as exact rationals [n, d] in lowest terms   *)
(* with d > 0, plus one absorbing value NonFinite that stands for NaN and  *)
(* +Inf/-Inf (any division by zero yields it and every operation on it     *)
(* yields it again; the code never divides by a non-finite value).         *)
(*                                                                         *)
(* Go slices are modelled as [ptr, len, cap] views on the memory cells     *)
(* `mem` that the caller owns, so that `append` behaves as in Go: it       *)
(* writes in place while the capacity lasts and moves to a private copy    *)
(* otherwise.                                                              *)
(***************************************************************************)
EXTENDS Integers, Sequences, FiniteSets, TLC

(***************************************************************************)
(* Bounds of the model.                                                    *)
(***************************************************************************)
MaxData == 4       \* observations the store may hold
MaxCrosses == 2    \* feature crosses that may be registered
MemSize == 4       \* float64 cells of the caller's array s
MaxRows == 2       \* rows of a table passed to MakeDataPoints
MaxWidth == 3      \* columns of a table passed to MakeDataPoints

(***************************************************************************)
(* float64 arithmetic.                                                     *)
(***************************************************************************)
Abs(x) == IF x < 0 THEN -x ELSE x

RECURSIVE GCD(_, _)
GCD(a, b) == IF b = 0 THEN a ELSE GCD(b, a % b)

NonFinite == [n |-> 0, d |-> 0]

IsFinite(x) == x.d # 0

Norm(n, d) ==
    IF d = 0 THEN NonFinite
    ELSE LET g == GCD(Abs(n), Abs(d))
             s == IF d < 0 THEN -1 ELSE 1
         IN  [n |-> s * (n \div g), d |-> s * (d \div g)]

F(i) == [n |-> i, d |-> 1]

Zero == F(0)

FAdd(a, b) ==
    IF a.d = 0 \/ b.d = 0 THEN NonFinite
    ELSE Norm(a.n * b.d + b.n * a.d, a.d * b.d)

FSub(a, b) ==
    IF a.d = 0 \/ b.d = 0 THEN NonFinite
    ELSE Norm(a.n * b.d - b.n * a.d, a.d * b.d)

FMul(a, b) ==
    IF a.d = 0 \/ b.d = 0 THEN NonFinite
    ELSE Norm(a.n * b.n, a.d * b.d)

FDiv(a, b) ==
    IF a.d = 0 \/ b.d = 0 \/ b.n = 0 THEN NonFinite
    ELSE Norm(a.n * b.d, a.d * b.n)

RECURSIVE IPow(_, _)
IPow(x, p) == IF p = 0 THEN 1 ELSE x * IPow(x, p - 1)

\* a[0]*b[0] + ... + a[k-1]*b[k-1] for vectors indexed from 0.
RECURSIVE Dot(_, _, _)
Dot(a, b, k) ==
    IF k = 0 THEN Zero ELSE FAdd(Dot(a, b, k - 1), FMul(a[k - 1], b[k - 1]))

(***************************************************************************)
(* Values the caller puts in its tables, and the feature crosses it        *)
(* registers.  Vals is closed under the crosses below, so cells stay in    *)
(* Vals whatever is appended to them.                                      *)
(***************************************************************************)
Vals == {0, 1}

ErrNotEnoughData == "not enough data points"

ErrTooManyVars == "not enough observations to support this many variables"

ErrRegressionRun == "regression has not run yet"

NoErr == "nil"

(***************************************************************************)
(* Feature crosses.                                                        *)
(***************************************************************************)
PowCross(i, power) == [kind |-> "pow", vars |-> <<i>>, power |-> power]

MultiplierCross(vars) == [kind |-> "mul", vars |-> vars, power |-> 1]

CrossSet == {PowCross(0, 2), MultiplierCross(<<0, 1>>)}

\* Calculate indexes input[v] for every bound index v: out of range panics.
CalculatePanics(c, input) ==
    \E k \in 1..Len(c.vars) : c.vars[k] < 0 \/ c.vars[k] >= Len(input)

RECURSIVE Product(_, _, _)
Product(vars, input, k) ==
    IF k = 0 THEN 1 ELSE Product(vars, input, k - 1) * input[vars[k] + 1]

Calculate(c, input) ==
    IF c.kind = "pow"
    THEN <<IPow(input[c.vars[1] + 1], c.power)>>
    ELSE <<Product(c.vars, input, Len(c.vars))>>

\* The number of values a cross returns; it is the same on every input.
Arity(c) == Len(Calculate(c, [j \in 1..(MemSize + 1) |-> 0]))

(***************************************************************************)
(* Slices of float64 over the caller's memory.                             *)
(***************************************************************************)
Slice(p, l, c) == [ptr |-> p, len |-> l, cap |-> c]

Slices ==
    {Slice(p, l, c) : p \in 0..MemSize, l \in 0..MemSize, c \in 0..MemSize}

WellFormed(s) == s.len <= s.cap /\ s.ptr + s.cap <= MemSize

Contents(m, s) == [j \in 1..s.len |-> m[s.ptr + j]]

\* append(vars, out...): in place while the capacity lasts, else a private
\* copy that no other slice sees.  st.cur are the elements of vars.
GoAppend(st, out) ==
    IF st.att /\ st.s.len + Len(out) <= st.s.cap
    THEN [mem |-> [a \in 1..MemSize |->
                     IF a > st.s.ptr + st.s.len /\ a <= st.s.ptr + st.s.len + Len(out)
                     THEN out[a - st.s.ptr - st.s.len] ELSE st.mem[a]],
          s   |-> Slice(st.s.ptr, st.s.len + Len(out), st.s.cap),
          att |-> TRUE,
          cur |-> st.cur \o out,
          panic |-> FALSE]
    ELSE [mem |-> st.mem, s |-> st.s, att |-> FALSE, cur |-> st.cur \o out,
          panic |-> FALSE]

(***************************************************************************)
(* Coefficient accessors.                                                  *)
(***************************************************************************)
NoCoeff == [i \in {} |-> Zero]

\* Coeff reading the entry after the one asked for.
CoeffOffByOne(rcoeff, i) ==
    IF Cardinality(DOMAIN rcoeff) = 0 THEN Zero
    ELSE IF (i + 1) \in DOMAIN rcoeff THEN rcoeff[i + 1] ELSE Zero

Coeff(rcoeff, i) ==
    IF Cardinality(DOMAIN rcoeff) = 0 THEN Zero
    ELSE IF i \in DOMAIN rcoeff THEN rcoeff[i] ELSE Zero

GetCoeffs(rcoeff) ==
    IF Cardinality(DOMAIN rcoeff) = 0 THEN <<>>
    ELSE [j \in 1..Cardinality(DOMAIN rcoeff) |->
            IF (j - 1) \in DOMAIN rcoeff THEN rcoeff[j - 1] ELSE Zero]

(***************************************************************************)
(* Predict.                                                                *)
(***************************************************************************)
\* The loop over r.crosses: vars = append(vars, cross.Calculate(vars)...).
RECURSIVE ExtendVars(_, _, _)
ExtendVars(rcrosses, st, k) ==
    IF k > Len(rcrosses) \/ st.panic THEN st
    ELSE IF CalculatePanics(rcrosses[k], st.cur)
         THEN [st EXCEPT !.panic = TRUE]
         ELSE ExtendVars(rcrosses, GoAppend(st, Calculate(rcrosses[k], st.cur)), k + 1)

\* p := r.Coeff(0); for j, val := range vars { p += r.Coeff(j+1) * val }
RECURSIVE LinearSum(_, _, _)
LinearSum(rcoeff, vars, j) ==
    IF j = 0 THEN Coeff(rcoeff, 0)
    ELSE FAdd(LinearSum(rcoeff, vars, j - 1), FMul(Coeff(rcoeff, j), F(vars[j])))

\* Result of r.Predict(vars) on memory m: the value, the error, the memory
\* as the appends leave it, and whether a cross panicked.
Predict(r, m, vars) ==
    IF ~r.Ready
    THEN [val |-> Zero, err |-> ErrRegressionRun, mem |-> m, panic |-> FALSE]
    ELSE LET st == ExtendVars(r.crosses,
                              [mem |-> m, s |-> vars, att |-> TRUE,
                               cur |-> Contents(m, vars), panic |-> FALSE], 1)
         IN  IF st.panic
             THEN [val |-> Zero, err |-> "panic", mem |-> st.mem, panic |-> TRUE]
             ELSE [val |-> LinearSum(r.coeff, st.cur, Len(st.cur)),
                   err |-> NoErr, mem |-> st.mem, panic |-> FALSE]

(***************************************************************************)
(* AddCross and Train.                                                     *)
(***************************************************************************)
AddCross(r, cross) == [r EXCEPT !.crosses = Append(r.crosses, cross)]

\* Train setting initialised one observation late.
TrainLateInit(r, d) ==
    LET data == r.Data \o d
    IN  [r EXCEPT !.Data = data,
                  !.initialised = IF Len(data) > 3 THEN TRUE ELSE r.initialised]

\* Train putting the new records in front of the store.
TrainPrepend(r, d) ==
    LET data == d \o r.Data
    IN  [r EXCEPT !.Data = data,
                  !.initialised = IF Len(data) > 2 THEN TRUE ELSE r.initialised]

Train(r, d) ==
    LET data == r.Data \o d
    IN  [r EXCEPT !.Data = data,
                  !.initialised = IF Len(data) > 2 THEN TRUE ELSE r.initialised]

(***************************************************************************)
(* applyCrosses.                                                           *)
(***************************************************************************)
\* The inner loop, for _, c := range r.crosses { p.Crosses = c.Calculate(...) },
\* on the loop variable p: each cross assigns p.Crosses anew.
RECURSIVE CrossLoop(_, _, _, _)
CrossLoop(rcrosses, p, vars, k) ==
    IF k > Len(rcrosses) THEN p
    ELSE CrossLoop(rcrosses, [p EXCEPT !.Crosses = Calculate(rcrosses[k], vars)],
                   vars, k + 1)

\* for _, p := range r.Data: p is a copy of the element, so the element of
\* r.Data stays what it was whatever the body assigned to p.
RangeByValue(elem, p) == elem

applyCrossesPanics(r, m) ==
    /\ Len(r.crosses) > 0
    /\ \E i \in 1..Len(r.Data) :
          /\ Len(r.Data[i].Crosses) = 0
          /\ \E k \in 1..Len(r.crosses) :
                CalculatePanics(r.crosses[k], Contents(m, r.Data[i].Variables))

applyCrosses(r, m) ==
    IF Len(r.crosses) = 0 THEN r.Data
    ELSE [i \in 1..Len(r.Data) |->
            IF Len(r.Data[i].Crosses) > 0 THEN r.Data[i]
            ELSE RangeByValue(r.Data[i],
                              CrossLoop(r.crosses, r.Data[i],
                                        Contents(m, r.Data[i].Variables), 1))]

(***************************************************************************)
(* Run: the design matrix.                                                 *)
(***************************************************************************)
NumOfVars(data) == data[1].Variables.len + Len(data[1].Crosses)

\* mat.Dense.Set panics on a column outside 0..numOfvars.
SetPanics(data, numOfvars) ==
    \E i \in 1..Len(data) :
        \/ data[i].Variables.len > numOfvars
        \/ /\ Len(data[i].Crosses) > 0
           /\ data[i].Variables.len + Len(data[i].Crosses) - 1 > numOfvars

\* Row of `variables` for data point p with variables vars, after
\*   variables.Set(i, 0, 1)
\*   variables.Set(i, j+1, val)                    for j, val in p.Variables
\*   variables.Set(i, len(p.Variables)+j, val)     for j, val in p.Crosses
\* in this order on a row of zeros: the later Set wins.
DesignRow(p, vars, numOfvars) ==
    [col \in 0..numOfvars |->
        IF col >= Len(vars) /\ col - Len(vars) < Len(p.Crosses)
        THEN F(p.Crosses[col - Len(vars) + 1])
        ELSE IF col = 0 THEN F(1)
        ELSE IF col <= Len(vars) THEN F(vars[col])
        ELSE Zero]

DesignMatrix(data, m, numOfvars) ==
    [i \in 0..(Len(data) - 1) |->
        DesignRow(data[i + 1], Contents(m, data[i + 1].Variables), numOfvars)]

ObservedVector(data) == [i \in 0..(Len(data) - 1) |-> F(data[i + 1].Observed)]

(***************************************************************************)
(* Run: QR factorisation and back-substitution.                            *)
(*                                                                         *)
(* qr.Factorize / QTo / RTo / qty.Mul are modelled by exact Gram-Schmidt   *)
(* orthogonalisation of the columns of `variables`.  Row i of reg and of   *)
(* qty is kept multiplied by the norm of the i-th orthogonal column, which *)
(* keeps every entry rational and leaves the solution of the               *)
(* back-substitution unchanged; the pivot reg[i][i] is zero exactly when   *)
(* column i depends linearly on the columns before it.                     *)
(***************************************************************************)
Column(x, j, rows) == [i \in 0..(rows - 1) |-> x[i][j]]

\* v minus its projections on q[0] .. q[k-1].
RECURSIVE Reject(_, _, _, _)
Reject(v, q, k, rows) ==
    IF k = 0 THEN v
    ELSE LET w == Reject(v, q, k - 1, rows)
             qq == Dot(q[k - 1], q[k - 1], rows)
             f == FDiv(Dot(q[k - 1], v, rows), qq)
         IN  IF qq = Zero THEN w
             ELSE [i \in 0..(rows - 1) |-> FSub(w[i], FMul(f, q[k - 1][i]))]

\* The orthogonal columns q[0] .. q[k-1] of x.
RECURSIVE Orthogonal(_, _, _)
Orthogonal(x, k, rows) ==
    IF k = 0 THEN [j \in {} |-> <<>>]
    ELSE LET q == Orthogonal(x, k - 1, rows)
             qk == Reject(Column(x, k - 1, rows), q, k - 1, rows)
         IN  [j \in 0..(k - 1) |-> IF j = k - 1 THEN qk ELSE q[j]]

QR(x, y, rows, n) ==
    LET q == Orthogonal(x, n, rows)
    IN  [reg |-> [i \in 0..(n - 1) |-> [j \in 0..(n - 1) |->
                    IF j < i THEN Zero ELSE Dot(q[i], Column(x, j, rows), rows)]],
         qty |-> [i \in 0..(n - 1) |-> Dot(q[i], y, rows)]]

\* c[i] = qty[i]; for j := i+1; j < n; j++ { c[i] -= c[j] * reg[i][j] }
RECURSIVE InnerLoop(_, _, _, _, _)
InnerLoop(ci, c, regi, j, n) ==
    IF j >= n THEN ci
    ELSE InnerLoop(FSub(ci, FMul(c[j], regi[j])), c, regi, j + 1, n)

\* The back-substitution without the division by the pivot.
RECURSIVE BackSubstituteNoPivot(_, _, _, _, _)
BackSubstituteNoPivot(c, reg, qty, i, n) ==
    IF i < 0 THEN c
    ELSE LET ci == InnerLoop(qty[i], c, reg[i], i + 1, n)
         IN  BackSubstituteNoPivot([c EXCEPT ![i] = ci], reg, qty, i - 1, n)

\* for i := n-1; i >= 0; i-- { ...; c[i] /= reg.At(i, i) }
RECURSIVE BackSubstitute(_, _, _, _, _)
BackSubstitute(c, reg, qty, i, n) ==
    IF i < 0 THEN c
    ELSE LET ci == FDiv(InnerLoop(qty[i], c, reg[i], i + 1, n), reg[i][i])
         IN  BackSubstitute([c EXCEPT ![i] = ci], reg, qty, i - 1, n)

Solve(x, y, rows, n) ==
    LET f == QR(x, y, rows, n)
    IN  BackSubstitute([i \in 0..(n - 1) |-> Zero], f.reg, f.qty, n - 1, n)

(***************************************************************************)
(* Run: predictions and statistics.                                        *)
(***************************************************************************)
\* calcPredicted from observation i on; st = [r, mem, panic].
RECURSIVE calcPredicted(_, _)
calcPredicted(st, i) ==
    IF i > Len(st.r.Data) \/ st.panic THEN st
    ELSE LET res == Predict(st.r, st.mem, st.r.Data[i].Variables)
         IN  IF res.panic
             THEN [st EXCEPT !.mem = res.mem, !.panic = TRUE]
             ELSE calcPredicted(
                    [st EXCEPT
                       !.mem = res.mem,
                       !.r.Data[i].Predicted = res.val,
                       !.r.Data[i].Error = FSub(res.val, F(st.r.Data[i].Observed))],
                    i + 1)

RECURSIVE Total(_, _)
Total(f, k) == IF k = 0 THEN Zero ELSE FAdd(Total(f, k - 1), f[k])

Square(x) == FMul(x, x)

calcVariance(r) ==
    LET observations == Len(r.Data)
        ob == [i \in 1..observations |-> F(r.Data[i].Observed)]
        pr == [i \in 1..observations |-> r.Data[i].Predicted]
        obaverage == FDiv(Total(ob, observations), F(observations))
        praverage == FDiv(Total(pr, observations), F(observations))
        obvar == Total([i \in 1..observations |-> Square(FSub(ob[i], obaverage))],
                       observations)
        prvar == Total([i \in 1..observations |-> Square(FSub(pr[i], praverage))],
                       observations)
    IN  [r EXCEPT !.VarianceObserved = FDiv(obvar, F(observations)),
                  !.VariancePredicted = FDiv(prvar, F(observations))]

calcR2(r) == [r EXCEPT !.R2 = FDiv(r.VariancePredicted, r.VarianceObserved)]

(***************************************************************************)
(* Run.                                                                    *)
(***************************************************************************)
Outcome(r, m, err) == [r |-> r, mem |-> m, err |-> err, panic |-> err = "panic"]

\* The end of Run: coefficients c stored, then calcPredicted, calcVariance,
\* calcR2; st is what calcPredicted leaves.
Finish(st) ==
    IF st.panic THEN Outcome(st.r, st.mem, "panic")
    ELSE Outcome(calcR2(calcVariance(st.r)), st.mem, NoErr)

\* The part of Run after the ErrTooManyVars check.
Fit(r, m, observations, numOfvars) ==
    IF SetPanics(r.Data, numOfvars) THEN Outcome(r, m, "panic")
    ELSE Finish(calcPredicted(
                  [r |-> [r EXCEPT !.coeff = Solve(DesignMatrix(r.Data, m, numOfvars),
                                                   ObservedVector(r.Data),
                                                   observations, numOfvars + 1)],
                   mem |-> m, panic |-> FALSE], 1))

\* Run once applyCrosses is done and r.Ready is set.
Checked(r, m) ==
    IF Len(r.Data) < NumOfVars(r.Data) + 1 THEN Outcome(r, m, ErrTooManyVars)
    ELSE Fit(r, m, Len(r.Data), NumOfVars(r.Data))

Run(r, m) ==
    IF ~r.initialised THEN Outcome(r, m, ErrNotEnoughData)
    ELSE IF applyCrossesPanics(r, m) THEN Outcome(r, m, "panic")
    ELSE Checked([r EXCEPT !.Data = applyCrosses(r, m), !.Ready = TRUE], m)

(***************************************************************************)
(* The state machine: one Regression value, the caller's memory, and the   *)
(* outcome of the last call.                                               *)
(***************************************************************************)
VARIABLES
    mem,                \* the caller's float64 cells, 1..MemSize
    Data,               \* r.Data
    coeff,              \* r.coeff
    R2,                 \* r.R2
    VarianceObserved,   \* r.VarianceObserved
    VariancePredicted,  \* r.VariancePredicted
    initialised,        \* r.initialised
    crosses,            \* r.crosses
    Ready,              \* r.Ready
    panicked,           \* a call panicked: the program is over
    op,                 \* the last call
    err,                \* the error it returned
    given,              \* the records the last call was given, if it was Train
    trained,            \* number of records passed to Train so far
    fitted,             \* the solution c of the last Run that returned nil
    fresh,              \* a Run returned nil and no Train, AddCross, Run followed
    table,              \* the [][]float64 last passed to MakeDataPoints
    obsCol,             \* the obsIndex last passed to MakeDataPoints
    retVal              \* the []DataPoint MakeDataPoints returned

vars == <<mem, Data, coeff, R2, VarianceObserved, VariancePredicted, initialised,
          crosses, Ready, panicked, op, err, given, trained, fitted, fresh,
          table, obsCol, retVal>>

reshaped == <<table, obsCol, retVal>>

model == <<Data, coeff, R2, VarianceObserved, VariancePredicted, initialised,
           crosses, Ready>>

\* The Regression value r of the current state.
Regression ==
    [Data |-> Data, coeff |-> coeff, R2 |-> R2,
     VarianceObserved |-> VarianceObserved,
     VariancePredicted |-> VariancePredicted,
     initialised |-> initialised, crosses |-> crosses, Ready |-> Ready]

Assign(r) ==
    /\ Data' = r.Data
    /\ coeff' = r.coeff
    /\ R2' = r.R2
    /\ VarianceObserved' = r.VarianceObserved
    /\ VariancePredicted' = r.VariancePredicted
    /\ initialised' = r.initialised
    /\ crosses' = r.crosses
    /\ Ready' = r.Ready

DataPoint(o, s, x) ==
    [Observed |-> o, Variables |-> s, Crosses |-> x, Predicted |-> Zero,
     Error |-> Zero]

\* The slices s[p:q] of the caller's array: Go gives them the capacity that
\* is left up to the end of the array.
CallerSlices ==
    {t \in Slices : WellFormed(t) /\ t.cap = MemSize - t.ptr}

\* Row k of the caller's table when the table has rows of w columns laid
\* out one after the other in the array: flat[k*w : (k+1)*w].
TableRow(w, k) == Slice(k * w, w, MemSize - k * w)

\* The record MakeDataPoints(a, 0) makes of row r of the table:
\*   DataPoint{Observed: r[0], Variables: r[1:]}
RowDataPoint(m, r) ==
    DataPoint(m[r.ptr + 1], Slice(r.ptr + 1, r.len - 1, r.cap - 1), <<>>)

\* The records a caller trains with: those of the rows of its table, for
\* every table of at least two columns that fits the array.
Records(m) ==
    UNION {{RowDataPoint(m, TableRow(w, k)) : k \in 0..((MemSize \div w) - 1)} :
              w \in 2..MemSize}

Batches(m, max) == UNION {[1..k -> Records(m)] : k \in 0..max}

\* The caller's obligation: all observations have the same number of
\* variables.
SameWidth(data) ==
    \A i, j \in 1..Len(data) : data[i].Variables.len = data[j].Variables.len

\* The zero value &Regression{} and any contents of the caller's memory.
Init ==
    /\ mem \in [1..MemSize -> Vals]
    /\ Data = <<>>
    /\ coeff = NoCoeff
    /\ R2 = Zero
    /\ VarianceObserved = Zero
    /\ VariancePredicted = Zero
    /\ initialised = FALSE
    /\ crosses = <<>>
    /\ Ready = FALSE
    /\ panicked = FALSE
    /\ op = "new"
    /\ err = NoErr
    /\ given = <<>>
    /\ trained = 0
    /\ fitted = NoCoeff
    /\ fresh = FALSE
    /\ table = <<>>
    /\ obsCol = 0
    /\ retVal = <<>>

TrainCall ==
    /\ ~panicked
    /\ \E d \in Batches(mem, MaxData - Len(Data)) :
          /\ SameWidth(Data \o d)
          /\ Assign(Train(Regression, d))
          /\ trained' = trained + Len(d)
          /\ given' = d
    /\ fresh' = FALSE
    /\ op' = "Train"
    /\ err' = NoErr
    /\ UNCHANGED <<mem, panicked, fitted, reshaped>>

AddCrossCall ==
    /\ ~panicked
    /\ Len(crosses) < MaxCrosses
    /\ \E c \in CrossSet :
          /\ Assign(AddCross(Regression, c))
    /\ op' = "AddCross"
    /\ err' = NoErr
    /\ given' = <<>>
    /\ fresh' = FALSE
    /\ UNCHANGED <<mem, panicked, trained, fitted, reshaped>>

RunCall ==
    /\ ~panicked
    /\ \E res \in {Run(Regression, mem)} :
           /\ Assign(res.r)
           /\ mem' = res.mem
           /\ panicked' = res.panic
           /\ err' = res.err
           /\ fitted' = IF res.err = NoErr THEN res.r.coeff ELSE fitted
           /\ fresh' = (res.err = NoErr)
    /\ op' = "Run"
    /\ given' = <<>>
    /\ UNCHANGED <<trained, reshaped>>

PredictCall ==
    /\ ~panicked
    /\ \E v \in CallerSlices :
          \E res \in {Predict(Regression, mem, v)} :
              /\ mem' = res.mem
              /\ panicked' = res.panic
              /\ err' = res.err
    /\ op' = "Predict"
    /\ given' = <<>>
    /\ UNCHANGED <<model, trained, fitted, fresh, reshaped>>

Next ==
    \/ TrainCall
    \/ AddCrossCall
    \/ RunCall
    \/ PredictCall

Spec == Init /\ [][Next]_vars

(***************************************************************************)
(* MakeDataPoints.  A table is a sequence of rows, a row the sequence of   *)
(* its float64 values; the Variables of the records are given by their     *)
(* contents (r[1:] and r[:last] are views of the row, `others` is a new    *)
(* array).                                                                 *)
(***************************************************************************)
CellVals == 0..2

\* The row-major tables the caller passes: non-empty, every row of the same
\* width, at least one column.
Tables ==
    UNION {[1..n -> [1..w -> CellVals]] : n \in 1..MaxRows, w \in 1..MaxWidth}

\* for i, c := range r { if i == obsIndex { continue }; others = append(others, c) }
\* from element i (0-based) on.
RECURSIVE Others(_, _, _)
Others(r, obsIndex, i) ==
    IF i >= Len(r) THEN <<>>
    ELSE IF i = obsIndex THEN Others(r, obsIndex, i + 1)
    ELSE <<r[i + 1]>> \o Others(r, obsIndex, i + 1)

\* perverseMakeDataPoints leaving out the element after the observed one.
perverseSkipNext(a, obsIndex) ==
    [k \in 1..Len(a) |->
        DataPoint(a[k][obsIndex + 1], Others(a[k], obsIndex + 1, 0), <<>>)]

perverseMakeDataPoints(a, obsIndex) ==
    [k \in 1..Len(a) |->
        DataPoint(a[k][obsIndex + 1], Others(a[k], obsIndex, 0), <<>>)]

MakeDataPoints(a, obsIndex) ==
    IF obsIndex # 0 /\ obsIndex # Len(a[1]) - 1
    THEN perverseMakeDataPoints(a, obsIndex)
    ELSE IF obsIndex = 0
         THEN [k \in 1..Len(a) |->
                 DataPoint(a[k][1], SubSeq(a[k], 2, Len(a[k])), <<>>)]
         ELSE LET last == Len(a[1]) - 1
              IN  [k \in 1..Len(a) |->
                     DataPoint(a[k][last + 1], SubSeq(a[k], 1, last), <<>>)]

\* One call of MakeDataPoints on a fresh program.
MakeDataPointsCall ==
    /\ op = "new"
    /\ \E t \in Tables :
          \E i \in 0..(Len(t[1]) - 1) :
              /\ table' = t
              /\ obsCol' = i
              /\ retVal' = MakeDataPoints(t, i)
    /\ op' = "MakeDataPoints"
    /\ UNCHANGED <<mem, model, panicked, err, given, trained, fitted, fresh>>

InitReshape == Init /\ mem = [j \in 1..MemSize |-> 0]

NextReshape == MakeDataPointsCall

SpecReshape == InitReshape /\ [][NextReshape]_vars

(***************************************************************************)
(* Properties.                                                             *)
(***************************************************************************)
RECURSIVE TotalArity(_)
TotalArity(cs) == IF cs = <<>> THEN 0 ELSE Arity(Head(cs)) + TotalArity(Tail(cs))

\* The outputs of every cross of cs on vars, in registration order.
RECURSIVE AllCrosses(_, _)
AllCrosses(cs, input) ==
    IF cs = <<>> THEN <<>>
    ELSE Calculate(Head(cs), input) \o AllCrosses(Tail(cs), input)

NumVars == IF Len(Data) = 0 THEN 0 ELSE Data[1].Variables.len

\* C1: as long as no Run has returned nil, Predict returns ErrRegressionRun,
\* whatever vector it is given and whatever calls came before.
C1_PredictNeedsFit ==
    (op = "Predict" /\ fitted = NoCoeff) => err = ErrRegressionRun

\* C2: a Run on N >= 3 observations of v variables, with crosses of total
\* arity k registered and N < 1 + v + k, returns ErrTooManyVars.
C2_Underdetermined ==
    ( /\ op = "Run"
      /\ err # "panic"
      /\ Len(Data) >= 3
      /\ Len(Data) < 1 + NumVars + TotalArity(crosses) )
    => err = ErrTooManyVars

\* C3: a Run that applies at least one registered cross leaves in the store,
\* on every observation whose Crosses was empty, the outputs of all the
\* registered crosses in registration order, and leaves the other
\* observations' Crosses as they were.
C3_CrossesStored ==
    [][ ( /\ op' = "Run"
          /\ err' \notin {ErrNotEnoughData, "panic"}
          /\ Len(crosses) > 0 )
        => \A i \in 1..Len(Data) :
              Data'[i].Crosses =
                 IF Len(Data[i].Crosses) = 0
                 THEN AllCrosses(crosses, Contents(mem, Data[i].Variables))
                 ELSE Data[i].Crosses ]_vars

\* C4: after a Run that returned nil there are 1 + v + k coefficients, k the
\* total arity of the crosses registered at that Run.
C4_CoeffCount ==
    (op = "Run" /\ err = NoErr)
    => Cardinality(DOMAIN coeff) = 1 + NumVars + TotalArity(crosses)

\* C5: Run returns ErrNotEnoughData exactly when at most 2 records have been
\* trained; it then changes nothing of the model nor of the caller's memory;
\* and once the store holds more than 2 observations it keeps more than 2
\* and Run no longer returns ErrNotEnoughData.
C5_NotEnoughData ==
    /\ [](op = "Run" => (err = ErrNotEnoughData <=> trained <= 2))
    /\ [][ (op' = "Run" /\ err' = ErrNotEnoughData)
           => UNCHANGED <<mem, model>> ]_vars
    /\ [][ Len(Data) > 2
           => (Len(Data') > 2 /\ ~(op' = "Run" /\ err' = ErrNotEnoughData)) ]_vars

C5_Witness == op = "Run" /\ err = ErrNotEnoughData /\ trained = 2

\* C6: no call removes or reorders observations or changes the variables or
\* the observed value of an observation in the store, and only Train makes
\* the store longer.
C6_StoreAppendOnly ==
    [][ /\ Len(Data') >= Len(Data)
        /\ (Len(Data') > Len(Data) => op' = "Train")
        /\ \A i \in 1..Len(Data) :
              /\ Data'[i].Observed = Data[i].Observed
              /\ Contents(mem', Data'[i].Variables)
                    = Contents(mem, Data[i].Variables) ]_vars

\* C7: after a Run that returned nil, and until the next Train, AddCross or
\* Run, Predict on the variables of a stored observation returns that
\* observation's Predicted, and its Error is Predicted - Observed.
C7_PredictReproduces ==
    fresh =>
      \A i \in 1..Len(Data) :
         /\ Predict(Regression, mem, Data[i].Variables).val = Data[i].Predicted
         /\ Data[i].Error = FSub(Data[i].Predicted, F(Data[i].Observed))

\* C8: Train puts the records it is given at the end of the store, in the
\* order given, and leaves the coefficients, the variances, R2 and Ready as
\* they are, before and after a fit.
C8_TrainAppends ==
    [][ op' = "Train"
        => /\ Data' = Data \o given'
           /\ UNCHANGED <<coeff, VarianceObserved, VariancePredicted, R2, Ready>>
      ]_vars

C8_Witness ==
    /\ op = "Train"
    /\ fitted # NoCoeff
    /\ Ready
    /\ Len(given) >= 1
    /\ Len(Data) > Len(given)

C10_SingularReported ==
    (op = "Run" /\ err = NoErr) => \A i \in DOMAIN coeff : IsFinite(coeff[i])

(***************************************************************************)
(* Fitting data that follow a linear relation exactly.                     *)
(***************************************************************************)
\* The intercept and slopes the caller generates its observations from.
Coefs == {-1, 0, 2}

\* s[p : p+v] for every p: the vectors of v variables in the caller's array.
Windows(v) == {Slice(p, v, MemSize - p) : p \in 0..(MemSize - v)}

\* a + b[1]*x[1] + ... + b[k]*x[k]
RECURSIVE Linear(_, _, _, _)
Linear(a, b, x, k) ==
    IF k = 0 THEN a ELSE Linear(a, b, x, k - 1) + b[k] * x[k]

\* The records of the vectors ws, observed without noise.
ExactRecords(m, a, b, ws) ==
    [i \in 1..Len(ws) |->
        DataPoint(Linear(a, b, Contents(m, ws[i]), ws[i].len), ws[i], <<>>)]

\* The vectors of a data set, taken from left to right in the array.
Ascending(ws) == \A i \in 1..(Len(ws) - 1) : ws[i].ptr <= ws[i + 1].ptr

\* The caller trains a fresh regression with N >= 3 observations of v
\* variables generated from a + b.x.
TrainExactCall ==
    /\ ~panicked
    /\ Data = <<>>
    /\ \E v \in 1..(MemSize - 2) :
          \E a \in Coefs, b \in [1..v -> Coefs] :
             \E n \in 3..MaxData :
                \E ws \in [1..n -> Windows(v)] :
                    /\ Ascending(ws)
                    /\ Assign(Train(Regression, ExactRecords(mem, a, b, ws)))
                    /\ given' = ExactRecords(mem, a, b, ws)
                    /\ trained' = trained + n
    /\ fresh' = FALSE
    /\ op' = "Train"
    /\ err' = NoErr
    /\ UNCHANGED <<mem, panicked, fitted, reshaped>>

NextExact ==
    \/ TrainExactCall
    \/ RunCall

SpecExact == Init /\ [][NextExact]_vars

\* The matrix with rows (1, x[1], .., x[v]) of the stored observations,
\* indexed from 1.
Inputs ==
    [i \in 1..Len(Data) |->
        <<1>> \o Contents(mem, Data[i].Variables)]

RECURSIVE SumTo(_, _)
SumTo(f, k) == IF k = 0 THEN 0 ELSE SumTo(f, k - 1) + f[k]

\* Transpose(x) * x
Gram(x) ==
    [i \in 1..Len(x[1]) |-> [j \in 1..Len(x[1]) |->
        SumTo([r \in 1..Len(x) |-> x[r][i] * x[r][j]], Len(x))]]

\* g without its first row and its column j.
Minor(g, j) ==
    [r \in 1..(Len(g) - 1) |-> [c \in 1..(Len(g) - 1) |->
        g[r + 1][IF c < j THEN c ELSE c + 1]]]

\* Determinant by expansion along the first row.
RECURSIVE Det(_)
Det(g) ==
    IF Len(g) = 1 THEN g[1][1]
    ELSE SumTo([j \in 1..Len(g) |->
                  (IF j % 2 = 1 THEN 1 ELSE -1) * g[1][j] * Det(Minor(g, j))],
               Len(g))

\* The columns of the design matrix are linearly independent.
FullRank == Len(Data) > 0 /\ Det(Gram(Inputs)) # 0

\* Every stored observation is exactly a + b.x.
Generated(a, b) ==
    \A i \in 1..Len(Data) :
        Data[i].Observed
           = Linear(a, b, Contents(mem, Data[i].Variables), Data[i].Variables.len)

CrossVals == {2, 3}

\* The records of the vectors ws, each with the cross values x.
CrossedRecords(o, ws, x) == [i \in 1..Len(ws) |-> DataPoint(o, ws[i], x)]

\* The caller trains a fresh regression with N >= 3 observations of v
\* variables and k cross values each.
TrainCrossedCall ==
    /\ ~panicked
    /\ Data = <<>>
    /\ \E v \in 1..(MemSize - 2), k \in 0..MaxCrosses, o \in Vals :
          \E x \in [1..k -> CrossVals] :
             \E n \in 3..MaxData :
                \E ws \in [1..n -> Windows(v)] :
                    /\ Ascending(ws)
                    /\ Assign(Train(Regression, CrossedRecords(o, ws, x)))
                    /\ given' = CrossedRecords(o, ws, x)
                    /\ trained' = trained + n
    /\ fresh' = FALSE
    /\ op' = "Train"
    /\ err' = NoErr
    /\ UNCHANGED <<mem, panicked, fitted, reshaped>>

NextDesign ==
    \/ TrainCrossedCall
    \/ RunCall

SpecDesign == Init /\ [][NextDesign]_vars

\* C13: the design matrix Run builds has, in row i, the constant 1 in
\* column 0, variable j of observation i in column j+1 and cross value j of
\* observation i in column v+1+j.  (No cross is registered here, so the Run
\* that returned nil left mem and the Variables and Crosses of the store as
\* it found them: the matrix it built is the one these give.)
C13_DesignColumns ==
    (op = "Run" /\ err = NoErr /\ crosses = <<>>)
    => LET v == NumVars
           k == Len(Data[1].Crosses)
       IN  DesignMatrix(Data, mem, NumOfVars(Data)) =
             [i \in 0..(Len(Data) - 1) |-> [col \in 0..(v + k) |->
                 IF col = 0 THEN F(1)
                 ELSE IF col <= v
                      THEN F(Contents(mem, Data[i + 1].Variables)[col])
                      ELSE F(Data[i + 1].Crosses[col - v])]]

C13_Witness ==
    /\ op = "Run"
    /\ err = NoErr
    /\ crosses = <<>>
    /\ NumVars = 1
    /\ Data[1].Crosses = <<2, 3>>
    /\ Contents(mem, Data[1].Variables) = <<1>>

\* C11: for a non-empty table whose rows all have width w >= 1 and an
\* obsIndex in 0..w-1, MakeDataPoints returns one record per row, in row
\* order, whose Observed is row[obsIndex] and whose Variables are the row
\* without that one element, the others in their original order.
C11_Reshape ==
    op = "MakeDataPoints" =>
      /\ Len(retVal) = Len(table)
      /\ \A k \in 1..Len(table) :
            /\ retVal[k].Observed = table[k][obsCol + 1]
            /\ retVal[k].Variables =
                  [j \in 1..(Len(table[k]) - 1) |->
                      IF j <= obsCol THEN table[k][j] ELSE table[k][j + 1]]

C11_Witness ==
    /\ op = "MakeDataPoints"
    /\ Len(table) = 2
    /\ obsCol = 1
    /\ table[2] = <<0, 1, 2>>
    /\ retVal[2].Observed = 1
    /\ retVal[2].Variables = <<0, 2>>

====
